---------------------------- MODULE Spec2Model ----------------------------
(***************************************************************************)
(* Model of the curriculum comparison and reformulation engine of          *)
(* AnalisisDeMallas (utils/curriculum_analysis.py and its collaborators).  *)
(*                                                                         *)
(* The module holds one state machine per pipeline stage.  Every stage     *)
(* has its own specification (SpecSynth, SpecCore, SpecCluster,            *)
(* SpecCompare); a specification draws the inputs of its stage from        *)
(* bounded sets in its Init and leaves the variables of the other stages   *)
(* at their idle values.                                                   *)
(*                                                                         *)
(* Conventions                                                             *)
(*  - a Python str is a sequence of one-character strings, so that         *)
(*    lower() and strip() are computed and not assumed;                    *)
(*  - a Python list that is shared by reference is an entry of a heap      *)
(*    (a function from references to sequences), so that aliasing and      *)
(*    in-place mutation are visible;                                       *)
(*  - ratios are integers in hundredths (0.7 is 70, 90 is 9000);           *)
(*  - the results of the external libraries (fuzzywuzzy, the embedding     *)
(*    model, scikit-learn's clustering) are inputs drawn in Init.          *)
(***************************************************************************)
EXTENDS Integers, Sequences, FiniteSets, TLC

VARIABLES
    pc,                     \* position of the running call
    similarity_threshold,   \* the threshold argument of the call, in hundredths
    \* ---- generate_recommendations ----
    udla_curriculum,        \* the baseline document: semester -> list reference
    heap,                   \* list reference -> the list's entries
    udla_before,            \* the input lists as they were when the call began
    comparison,             \* comparison['materias_a_agregar']
    fuzz,                   \* the fuzzywuzzy scores of every pair of names
    recommended_curriculum, \* semester -> list reference of the result
    all_existing_subjects,  \* the running list of normalized names
    idx,                    \* index of the next entry of the loop
    verdict,                \* per processed entry, the branch the loop took
    \* ---- identify_core_subjects ----
    group_heap,             \* group reference -> the group's dict
    subject_groups,         \* the list of group references passed in
    universities,           \* the list of institutions passed in
    core_results,           \* threshold_percentage -> outcome of the call
    \* ---- group_similar_subjects ----
    subjects,               \* the list of subjects passed in
    labels,                 \* the labels of clustering.fit_predict
    cluster_result,         \* the list of groups returned
    \* ---- compare_curricula ----
    core_subjects,          \* the list of core subjects passed in
    udla_subjects,          \* the list of baseline subjects passed in
    sim,                    \* cosine similarity of core subject i and baseline j
    existing_subjects,      \* the matched records
    missing_subjects,       \* the missing records
    cidx,                   \* index of the next core subject of the loop
    branch,                 \* per processed core subject, the branch the loop took
    \* ---- normalize_text ----
    text,                   \* the argument of the first call
    normalized,             \* the values returned by the calls so far
    \* ---- analyze_career ----
    db,                     \* self.db: "None" or "connected"
    core_threshold,         \* self.core_threshold, in hundredths
    collection,             \* the documents of the collection that match the career
    provider,               \* the state of the embedding provider
    cache_file,             \* the cache file of batch_embed_documents
    career_docs,            \* the documents get_career_documents returned
    udla_doc,               \* the document get_udla_curriculum returned
    all_subjects,           \* the flat list of the subjects of the documents
    analysis,               \* the dict analyze_career returns
    \* ---- batch_embed_documents ----
    batch_documents,        \* the documents of the latest call
    batch_embeddings        \* the embeddings the latest call returned

synthVars == <<udla_curriculum, heap, udla_before, comparison, fuzz,
               recommended_curriculum, all_existing_subjects, idx, verdict>>
coreVars == <<group_heap, subject_groups, universities, core_results>>
clusterVars == <<subjects, labels, cluster_result>>
compareVars == <<core_subjects, udla_subjects, sim, existing_subjects,
                 missing_subjects, cidx, branch>>

normalizeVars == <<text, normalized>>

analyzeVars == <<db, core_threshold, collection, provider, cache_file, career_docs, udla_doc,
                 all_subjects, analysis>>

embedVars == <<batch_documents, batch_embeddings>>

vars == <<pc, similarity_threshold, synthVars, coreVars, clusterVars, compareVars,
          normalizeVars, analyzeVars, embedVars>>

\* The values of the variables of a stage that is not running.
IdleSynth ==
    /\ udla_curriculum = <<>> /\ heap = <<>> /\ udla_before = <<>>
    /\ comparison = <<>> /\ fuzz = <<>> /\ recommended_curriculum = <<>>
    /\ all_existing_subjects = <<>> /\ idx = 0 /\ verdict = <<>>

IdleCore ==
    /\ group_heap = <<>> /\ subject_groups = <<>>
    /\ universities = <<>> /\ core_results = <<>>

IdleCluster == subjects = <<>> /\ labels = <<>> /\ cluster_result = <<>>

IdleCompare ==
    /\ core_subjects = <<>> /\ udla_subjects = <<>> /\ sim = <<>>
    /\ existing_subjects = <<>> /\ missing_subjects = <<>> /\ cidx = 0
    /\ branch = <<>>

IdleNormalize == text = <<>> /\ normalized = <<>>

IdleAnalyze ==
    /\ db = "" /\ core_threshold = 0 /\ collection = <<>> /\ provider = "" /\ cache_file = <<>>
    /\ career_docs = <<>> /\ udla_doc = <<>> /\ all_subjects = <<>>
    /\ analysis = <<>>

IdleEmbed == batch_documents = <<>> /\ batch_embeddings = <<>>

(***************************************************************************)
(* Bounds of the model.                                                    *)
(***************************************************************************)
MaxBaseline == 2    \* entries of the baseline curriculum, all semesters together
MaxMissing == 2     \* entries of comparison['materias_a_agregar']
MaxGroups == 2      \* groups passed to identify_core_subjects
MaxSubjects == 3    \* subjects passed to group_similar_subjects
MaxCore == 2        \* core subjects passed to compare_curricula
MaxUdlaSubjects == 2    \* baseline subjects passed to compare_curricula

(***************************************************************************)
(* Python strings.                                                         *)
(***************************************************************************)
Whitespace == {" "}

LowerChar(c) ==
    CASE c = "A" -> "a" [] c = "B" -> "b" [] c = "Á" -> "á" [] OTHER -> c

\* str.lower()
Lower(s) == [i \in 1..Len(s) |-> LowerChar(s[i])]

RECURSIVE LStrip(_)
LStrip(s) == IF s # <<>> /\ Head(s) \in Whitespace THEN LStrip(Tail(s)) ELSE s

RECURSIVE RStrip(_)
RStrip(s) ==
    IF s # <<>> /\ s[Len(s)] \in Whitespace
    THEN RStrip(SubSeq(s, 1, Len(s) - 1)) ELSE s

\* str.strip()
Strip(s) == RStrip(LStrip(s))

\* nombre.lower().strip()
NormalizeName(s) == Strip(Lower(s))

SeqRange(s) == {s[i] : i \in 1..Len(s)}

\* All sequences over S of length at most n.
SeqsUpTo(S, n) == UNION {[1..k -> S] : k \in 0..n}


(***************************************************************************)
(* generate_recommendations: the Recommendation Synthesizer.               *)
(***************************************************************************)
SemOrder == <<"1", "2">>        \* the semester labels, in dict order
SemLabels == SeqRange(SemOrder)

\* An entry of a semester list: a plain name, a subject object with a
\* 'nombre' field, or a value of some other shape.
StrEntry(n) == [kind |-> "str", nombre |-> n]
DictEntry(n) == [kind |-> "dict", nombre |-> n]
OtherEntry == [kind |-> "other", nombre |-> <<>>]

BaselineEntries == {StrEntry(<<"a">>), DictEntry(<<"A", " ">>), OtherEntry}

RecommendedNames == {<<"a">>, <<" ", "B">>}

NormNames == {NormalizeName(n) : n \in RecommendedNames}
                 \cup {NormalizeName(e.nombre) : e \in BaselineEntries \ {OtherEntry}}

MissingEntries ==
    [nombre_recomendado : RecommendedNames, semestre_sugerido : SemLabels]

\* The three measures of fuzzywuzzy for one pair of names (0..100 each).
FuzzProfiles ==
    { [ratio |-> 0,  partial_ratio |-> 0,  token_sort_ratio |-> 0],
      [ratio |-> 92, partial_ratio |-> 0,  token_sort_ratio |-> 0],
      [ratio |-> 0,  partial_ratio |-> 96, token_sort_ratio |-> 0],
      [ratio |-> 0,  partial_ratio |-> 0,  token_sort_ratio |-> 92] }

FuzzPairs == {p \in NormNames \X NormNames : p[1] # p[2]}

\* similarity_threshold of generate_recommendations, in hundredths: the
\* default 0.85 and the 90 that analyze_career passes.
DuplicateThresholds == {85, 9000}

\* The cutoff of partial_ratio.
PartialCutoff == 95

ListRefs == [kind : {"in", "out"}, sem : SemLabels]
InRef(s) == [kind |-> "in", sem |-> s]

\* The mutant of ListCopyRef: the result shares the list of the input.
ListAliasRef(s) == InRef(s)

\* list(materias): the list of the result is a new list.
ListCopyRef(s) == [kind |-> "out", sem |-> s]

\* The semesters of a curriculum in iteration order.
SemestersOf(malla) == SelectSeq(SemOrder, LAMBDA s : s \in DOMAIN malla)

\* The normalized names an entry contributes to all_existing_subjects.
ExistingNamesOf(materia) ==
    IF materia.kind \in {"dict", "str"}
    THEN <<NormalizeName(materia.nombre)>>
    ELSE <<>>

RECURSIVE ExistingNamesOfList(_)
ExistingNamesOfList(materias) ==
    IF materias = <<>> THEN <<>>
    ELSE ExistingNamesOf(Head(materias)) \o ExistingNamesOfList(Tail(materias))

RECURSIVE AllExistingSubjects(_, _, _)
AllExistingSubjects(sems, malla, h) ==
    IF sems = <<>> THEN <<>>
    ELSE ExistingNamesOfList(h[malla[Head(sems)]])
             \o AllExistingSubjects(Tail(sems), malla, h)

FuzzScore(scores, x, y) ==
    IF x = y
    THEN [ratio |-> 100, partial_ratio |-> 100, token_sort_ratio |-> 100]
    ELSE scores[<<x, y>>]

\* The mutant of IsDuplicateOf: the three measures are combined with AND.
IsDuplicateOfAll(scores, threshold, nombre_normalizado, existing_subject) ==
    LET sc == FuzzScore(scores, nombre_normalizado, existing_subject)
    IN  /\ sc.ratio * 100 > threshold
        /\ sc.partial_ratio > PartialCutoff
        /\ sc.token_sort_ratio * 100 > threshold

\* ratio > similarity_threshold or partial_ratio > 95
\*     or token_sort_ratio > similarity_threshold
IsDuplicateOf(scores, threshold, nombre_normalizado, existing_subject) ==
    LET sc == FuzzScore(scores, nombre_normalizado, existing_subject)
    IN  \/ sc.ratio * 100 > threshold
        \/ sc.partial_ratio > PartialCutoff
        \/ sc.token_sort_ratio * 100 > threshold

\* The mutant of RunningAfterAdd: the accepted name is not remembered.
RunningUnchanged(existing, nombre_normalizado) == existing

\* all_existing_subjects.append(nombre_normalizado)
RunningAfterAdd(existing, nombre_normalizado) ==
    Append(existing, nombre_normalizado)

\* The mutant of AppendSubject: the name is put at the front of the list.
PrependSubject(materias, nombre_recomendado) ==
    <<StrEntry(nombre_recomendado)>> \o materias

\* recommended_curriculum[semestre_sugerido].append(nombre_recomendado)
AppendSubject(materias, nombre_recomendado) ==
    Append(materias, StrEntry(nombre_recomendado))

TotalLen(buckets) ==
    LET RECURSIVE Sum(_)
        Sum(S) == IF S = {} THEN 0
                  ELSE LET s == CHOOSE x \in S : TRUE
                       IN  Len(buckets[s]) + Sum(S \ {s})
    IN  Sum(DOMAIN buckets)

InitSynth ==
    /\ pc = "synth_start"
    /\ \E sems \in SUBSET SemLabels :
         \E buckets \in [sems -> SeqsUpTo(BaselineEntries, MaxBaseline)] :
            /\ TotalLen(buckets) <= MaxBaseline
            /\ udla_curriculum = [malla_curricular |-> [s \in sems |-> InRef(s)]]
            /\ heap = [r \in ListRefs |->
                         IF r.kind = "in" /\ r.sem \in sems
                         THEN buckets[r.sem] ELSE <<>>]
            /\ udla_before = buckets
    /\ comparison \in SeqsUpTo(MissingEntries, MaxMissing)
    /\ similarity_threshold \in DuplicateThresholds
    /\ fuzz \in [FuzzPairs -> FuzzProfiles]
    /\ recommended_curriculum = <<>>
    /\ all_existing_subjects = <<>>
    /\ idx = 0
    /\ verdict = <<>>
    /\ IdleCore /\ IdleCluster /\ IdleCompare /\ IdleNormalize
    /\ IdleAnalyze /\ IdleEmbed

\* Lines 318-339: the copy of the baseline and the list of existing names.
CopyBaseline ==
    /\ pc = "synth_start"
    /\ LET malla == udla_curriculum.malla_curricular
       IN  /\ recommended_curriculum' = [s \in DOMAIN malla |-> ListCopyRef(s)]
           /\ heap' = [r \in ListRefs |->
                         IF \E s \in DOMAIN malla : r = ListCopyRef(s) /\ r # malla[s]
                         THEN heap[malla[r.sem]] ELSE heap[r]]
           /\ all_existing_subjects' =
                  AllExistingSubjects(SemestersOf(malla), malla, heap)
    /\ idx' = 1
    /\ pc' = "synth_loop"
    /\ UNCHANGED <<udla_curriculum, udla_before, comparison,
                   similarity_threshold, fuzz, verdict>>
    /\ UNCHANGED <<coreVars, clusterVars, compareVars, normalizeVars, analyzeVars, embedVars>>

\* Lines 341-374: one iteration of the loop over the entries to add.
ProcessSubject ==
    /\ pc = "synth_loop"
    /\ idx <= Len(comparison)
    /\ LET subject == comparison[idx]
           nombre_recomendado == subject.nombre_recomendado
           semestre_sugerido == subject.semestre_sugerido
           nombre_normalizado == NormalizeName(nombre_recomendado)
           is_duplicate ==
               \E i \in 1..Len(all_existing_subjects) :
                   IsDuplicateOf(fuzz, similarity_threshold,
                                 nombre_normalizado, all_existing_subjects[i])
       IN  IF nombre_normalizado \in SeqRange(all_existing_subjects)
           THEN /\ verdict' = Append(verdict, "exact")
                /\ UNCHANGED <<heap, all_existing_subjects>>
           ELSE IF is_duplicate
           THEN /\ verdict' = Append(verdict, "fuzzy")
                /\ UNCHANGED <<heap, all_existing_subjects>>
           ELSE IF semestre_sugerido \in DOMAIN recommended_curriculum
           THEN /\ heap' = [heap EXCEPT ![recommended_curriculum[semestre_sugerido]] =
                                AppendSubject(@, nombre_recomendado)]
                /\ all_existing_subjects' =
                       RunningAfterAdd(all_existing_subjects, nombre_normalizado)
                /\ verdict' = Append(verdict, "added")
           ELSE /\ verdict' = Append(verdict, "no_bucket")
                /\ UNCHANGED <<heap, all_existing_subjects>>
    /\ idx' = idx + 1
    /\ UNCHANGED <<pc, udla_curriculum, udla_before, comparison,
                   similarity_threshold, fuzz, recommended_curriculum>>
    /\ UNCHANGED <<coreVars, clusterVars, compareVars, normalizeVars, analyzeVars, embedVars>>

\* Line 376: return recommended_curriculum.
ReturnRecommended ==
    /\ pc = "synth_loop"
    /\ idx > Len(comparison)
    /\ pc' = "synth_done"
    /\ UNCHANGED <<similarity_threshold, synthVars>>
    /\ UNCHANGED <<coreVars, clusterVars, compareVars, normalizeVars, analyzeVars, embedVars>>

NextSynth == CopyBaseline \/ ProcessSubject \/ ReturnRecommended

SpecSynth == InitSynth /\ [][NextSynth]_vars

\* The returned curriculum: semester -> entries.
Recommended(s) == heap[recommended_curriculum[s]]

(***************************************************************************)
(* Properties of generate_recommendations.                                 *)
(***************************************************************************)
HasName(e) == e.kind \in {"str", "dict"}

\* Two entries whose names are the same string once lower-cased and trimmed.
SameNormalized(e1, e2) ==
    /\ HasName(e1)
    /\ HasName(e2)
    /\ Strip(Lower(e1.nombre)) = Strip(Lower(e2.nombre))

\* C2: when generate_recommendations has returned, every semester of the
\* baseline is a semester of the result, and the bucket of the result
\* starts with the entries of the baseline bucket, in the same order.
NoBaselineShrinkage ==
    pc = "synth_done" =>
        \A s \in DOMAIN udla_before :
            /\ s \in DOMAIN recommended_curriculum
            /\ Len(Recommended(s)) >= Len(udla_before[s])
            /\ SubSeq(Recommended(s), 1, Len(udla_before[s])) = udla_before[s]

\* A name was added to a bucket that the baseline had filled.
WitnessNoBaselineShrinkage ==
    /\ pc = "synth_done"
    /\ \E s \in DOMAIN udla_before :
          /\ udla_before[s] # <<>>
          /\ Len(Recommended(s)) > Len(udla_before[s])

\* C3: when generate_recommendations has returned, every entry that was not
\* skipped as a duplicate has its recommended name, as given, in the bucket
\* of its suggested semester, and that bucket exists.
NonDuplicateIsInserted ==
    pc = "synth_done" =>
        \A i \in 1..Len(comparison) :
            verdict[i] \notin {"exact", "fuzzy"} =>
                /\ comparison[i].semestre_sugerido \in DOMAIN recommended_curriculum
                /\ StrEntry(comparison[i].nombre_recomendado)
                       \in SeqRange(Recommended(comparison[i].semestre_sugerido))

\* C4 as stated: no bucket of the result holds two names that are the same
\* string once lower-cased and trimmed.
NoSameNormalizedInBucket ==
    pc = "synth_done" =>
        \A s \in DOMAIN recommended_curriculum :
            \A i, j \in 1..Len(Recommended(s)) :
                i < j => ~SameNormalized(Recommended(s)[i], Recommended(s)[j])

\* C4 as amended: two names of one bucket of the result that are the same
\* string once lower-cased and trimmed are both entries of the baseline
\* bucket; no added name repeats a name of its bucket.
AddedNamesAreNew ==
    pc = "synth_done" =>
        \A s \in DOMAIN recommended_curriculum :
            \A i, j \in 1..Len(Recommended(s)) :
                (i < j /\ SameNormalized(Recommended(s)[i], Recommended(s)[j]))
                    => j <= Len(udla_before[s])

\* A name was added to a bucket that holds another name, and the baseline
\* bucket held one name twice.
WitnessAddedNamesAreNew ==
    /\ pc = "synth_done"
    /\ \E s \in DOMAIN recommended_curriculum :
          /\ Len(udla_before[s]) = 2
          /\ SameNormalized(udla_before[s][1], udla_before[s][2])
          /\ Len(Recommended(s)) > Len(udla_before[s])

\* The entry of the loop is a duplicate in the sense of C5: its name,
\* lower-cased and trimmed, is in the running list, or one of the three
\* measures against a name of the running list is above its cutoff.
ClaimedDuplicate ==
    LET n == Strip(Lower(comparison[idx].nombre_recomendado))
    IN  \/ n \in SeqRange(all_existing_subjects)
        \/ \E e \in SeqRange(all_existing_subjects) :
              \/ fuzz[<<n, e>>].ratio * 100 > similarity_threshold
              \/ fuzz[<<n, e>>].partial_ratio > PartialCutoff
              \/ fuzz[<<n, e>>].token_sort_ratio * 100 > similarity_threshold

\* C5: an iteration of the loop whose entry is an exact duplicate, or for
\* which any one of the three measures is above its cutoff, leaves every
\* bucket of the result as it was.
DuplicateNeverInserted ==
    [][(pc = "synth_loop" /\ idx <= Len(comparison) /\ ClaimedDuplicate)
          => (heap' = heap /\ recommended_curriculum' = recommended_curriculum)]_vars

\* One entry was skipped as an exact duplicate and one as a fuzzy duplicate.
WitnessDuplicateNeverInserted ==
    /\ pc = "synth_done"
    /\ "exact" \in SeqRange(verdict)
    /\ "fuzzy" \in SeqRange(verdict)

\* C6: when generate_recommendations has returned, the document it was given
\* has the semesters it had, and each of its lists has the entries it had,
\* in the same order.
BaselineDocumentUnchanged ==
    pc = "synth_done" =>
        /\ DOMAIN udla_curriculum.malla_curricular = DOMAIN udla_before
        /\ \A s \in DOMAIN udla_before :
              heap[udla_curriculum.malla_curricular[s]] = udla_before[s]

\* The call added a name to the curriculum it returned.
WitnessBaselineDocumentUnchanged ==
    /\ pc = "synth_done"
    /\ "added" \in SeqRange(verdict)
    /\ udla_before # <<>>

(***************************************************************************)
(* identify_core_subjects: the Core Subject Identifier.                    *)
(***************************************************************************)
\* threshold_percentage, in hundredths.
CoreThresholds == {0, 50, 70, 100}

\* frecuencia_relativa of a group that has not been through the function.
Unset == [num |-> 0, den |-> 0]

\* The lists of institutions passed in: none, one, one listed twice, two,
\* two of which one is listed twice, three.
UniversityLists ==
    { <<>>, <<"U1">>, <<"U2", "U2">>, <<"U1", "U2">>,
      <<"U1", "U2", "U1">>, <<"U1", "U2", "U3">> }

GroupDicts ==
    [universidades : { <<"U1">>, <<"U2">>, <<"U1", "U1">>, <<"U1", "U2">>,
                       <<"U3", "U1", "U2">> },
     frecuencia_relativa : {Unset}]

\* The mutant of TotalUniversities: the list is counted with its duplicates.
TotalUniversitiesWithDuplicates(univs) == Len(univs)

\* total_universities = len(set(universities))
TotalUniversities(univs) == Cardinality(SeqRange(univs))

\* len(set(group["universidades"]))
GroupUniversities(group) == Cardinality(SeqRange(group.universidades))

\* The mutant of Qualifies: the comparison is the other way round.
QualifiesBelow(group, total_universities, threshold_percentage) ==
    GroupUniversities(group) * 100 <= total_universities * threshold_percentage

\* len(set(group["universidades"])) >= total_universities * threshold_percentage
Qualifies(group, total_universities, threshold_percentage) ==
    GroupUniversities(group) * 100 >= total_universities * threshold_percentage

\* The references of the groups that qualify, in the order of the list.
QualifyingGroups(groups, gheap, total_universities, threshold_percentage) ==
    SelectSeq(groups, LAMBDA g :
        Qualifies(gheap[g], total_universities, threshold_percentage))

NotCalled == [status |-> "not_called", core_subjects |-> <<>>]
Raised(e) == [status |-> e, core_subjects |-> <<>>]
Returned(l) == [status |-> "returned", core_subjects |-> l]

InitCore ==
    /\ pc = "core"
    /\ similarity_threshold = 0
    /\ \E n \in 0..MaxGroups :
          /\ group_heap \in [1..n -> GroupDicts]
          /\ subject_groups = [i \in 1..n |-> i]
    /\ universities \in UniversityLists
    /\ core_results = [t \in CoreThresholds |-> NotCalled]
    /\ IdleSynth /\ IdleCluster /\ IdleCompare /\ IdleNormalize
    /\ IdleAnalyze /\ IdleEmbed

\* Lines 198-209: one call of identify_core_subjects with a threshold.  The
\* division of line 206 raises ZeroDivisionError when total_universities
\* is 0; it is reached with the first group that qualifies.
IdentifyCoreSubjects(threshold_percentage) ==
    /\ pc = "core"
    /\ core_results[threshold_percentage] = NotCalled
    /\ LET total_universities == TotalUniversities(universities)
           selected == QualifyingGroups(subject_groups, group_heap,
                                        total_universities, threshold_percentage)
       IN  IF selected # <<>> /\ total_universities = 0
           THEN /\ core_results' = [core_results EXCEPT
                       ![threshold_percentage] = Raised("ZeroDivisionError")]
                /\ UNCHANGED group_heap
           ELSE /\ core_results' = [core_results EXCEPT
                       ![threshold_percentage] = Returned(selected)]
                /\ group_heap' = [g \in DOMAIN group_heap |->
                       IF g \in SeqRange(selected)
                       THEN [group_heap[g] EXCEPT !.frecuencia_relativa =
                                [num |-> GroupUniversities(group_heap[g]),
                                 den |-> total_universities]]
                       ELSE group_heap[g]]
    /\ UNCHANGED <<pc, similarity_threshold, subject_groups, universities>>
    /\ UNCHANGED <<synthVars, clusterVars, compareVars, normalizeVars, analyzeVars, embedVars>>

NextCore == \E t \in CoreThresholds : IdentifyCoreSubjects(t)

SpecCore == InitCore /\ [][NextCore]_vars

(***************************************************************************)
(* Properties of identify_core_subjects.                                   *)
(***************************************************************************)
\* The number of distinct institutions analyzed.
DistinctInstitutions == Cardinality({universities[i] : i \in DOMAIN universities})

\* The number of distinct institutions of a group.
DistinctOfGroup(g) ==
    Cardinality({group_heap[g].universidades[i] :
                    i \in DOMAIN group_heap[g].universidades})

\* C7: when at least one institution is analyzed, a call returns, and it
\* returns exactly the groups for which the distinct institutions of the
\* group divided by the distinct institutions analyzed is at least the
\* threshold, in the order of the list; repeated names in the list of
\* institutions do not count.
CoreIffCoverageAtLeastThreshold ==
    \A t \in CoreThresholds :
        (core_results[t] # NotCalled /\ DistinctInstitutions > 0) =>
            /\ core_results[t].status = "returned"
            /\ core_results[t].core_subjects =
                   SelectSeq(subject_groups, LAMBDA g :
                       DistinctOfGroup(g) * 100 >= t * DistinctInstitutions)

\* Two institutions, one of them listed twice, threshold 0.7: a group of
\* one institution is left out and a group of two is returned.
WitnessCoreIffCoverageAtLeastThreshold ==
    /\ core_results[70].status = "returned"
    /\ DistinctInstitutions = 2
    /\ Len(universities) = 3
    /\ \E g \in DOMAIN group_heap :
          DistinctOfGroup(g) = 1 /\ g \notin SeqRange(core_results[70].core_subjects)
    /\ \E g \in DOMAIN group_heap :
          DistinctOfGroup(g) = 2 /\ g \in SeqRange(core_results[70].core_subjects)

\* C8: of two calls on the same groups and institutions that returned, the
\* one with the higher threshold returned a subset of the groups of the
\* other, and not more of them.
ThresholdMonotonicity ==
    \A t1, t2 \in CoreThresholds :
        (/\ t1 <= t2
         /\ core_results[t1].status = "returned"
         /\ core_results[t2].status = "returned") =>
            /\ SeqRange(core_results[t2].core_subjects)
                   \subseteq SeqRange(core_results[t1].core_subjects)
            /\ Len(core_results[t2].core_subjects)
                   <= Len(core_results[t1].core_subjects)

\* Two calls returned, and the higher threshold returned fewer groups.
WitnessThresholdMonotonicity ==
    /\ core_results[50].status = "returned"
    /\ core_results[70].status = "returned"
    /\ Len(core_results[70].core_subjects) < Len(core_results[50].core_subjects)
    /\ core_results[70].core_subjects # <<>>

\* C9: when no institution is analyzed, every call returns, and it returns
\* the empty list.
NoInstitutionsGivesEmpty ==
    \A t \in CoreThresholds :
        (core_results[t] # NotCalled /\ DistinctInstitutions = 0) =>
            core_results[t] = Returned(<<>>)

(***************************************************************************)
(* group_similar_subjects: the Subject Clusterer.                          *)
(*                                                                         *)
(* A subject is referred to by its position in the list passed in: two     *)
(* subjects with equal fields are still two subjects.  The labels of       *)
(* AgglomerativeClustering.fit_predict are an input.                       *)
(***************************************************************************)
Subject(n, u, sem, a, t) ==
    [nombre |-> n, universidad |-> u, semestre |-> sem, area |-> a, tipo |-> t]

SubjectPool ==
    { Subject(<<"a">>, "U1", "1", "", ""),
      Subject(<<"b">>, "U2", "1", "X", "T"),
      Subject(<<"A", " ">>, "", "2", "Y", ""),
      Subject(<<"b">>, "U1", "2", "Y", "S"),
      Subject(<<>>, "U2", "1", "", "") }

\* The orders in which list(set(...)) can enumerate the institutions.
HashOrders ==
    { <<"", "U1", "U2">>, <<"", "U2", "U1">>, <<"U1", "", "U2">>,
      <<"U1", "U2", "">>, <<"U2", "", "U1">>, <<"U2", "U1", "">> }

\* The keys of `clusters` in insertion order: the labels by first occurrence.
RECURSIVE ClusterLabels(_)
ClusterLabels(ls) ==
    IF ls = <<>> THEN <<>>
    ELSE LET rest == ClusterLabels(SubSeq(ls, 1, Len(ls) - 1))
             l == ls[Len(ls)]
         IN  IF l \in SeqRange(rest) THEN rest ELSE Append(rest, l)

\* The mutant of ClusterSubjects: the last subject of the list is not read.
ClusterSubjectsButLast(ls, label) ==
    SelectSeq([i \in 1..Len(ls) |-> i], LAMBDA i : ls[i] = label /\ i < Len(ls))

\* clusters[int(label)].append(subjects[i]): the subjects of one label, in
\* the order of the list.
ClusterSubjects(ls, label) ==
    SelectSeq([i \in 1..Len(ls) |-> i], LAMBDA i : ls[i] = label)

Count(values, v) == Cardinality({i \in 1..Len(values) : values[i] = v})

\* The mutant of MostCommon: of the values that tie, the last one met wins.
MostCommonLast(values, empty, default) ==
    LET present == SelectSeq(values, LAMBDA v : v # empty)
    IN  IF present = <<>> THEN default
        ELSE present[CHOOSE i \in 1..Len(present) :
                 /\ \A j \in 1..Len(present) :
                        Count(present, present[j]) <= Count(present, present[i])
                 /\ \A j \in (i + 1)..Len(present) :
                        Count(present, present[j]) < Count(present, present[i])]

\* max(counts.items(), key=lambda x: x[1])[0] over the non-empty values: the
\* value with the highest count, the first one met among those that tie.
MostCommon(values, empty, default) ==
    LET present == SelectSeq(values, LAMBDA v : v # empty)
    IN  IF present = <<>> THEN default
        ELSE present[CHOOSE i \in 1..Len(present) :
                 /\ \A j \in 1..Len(present) :
                        Count(present, present[j]) <= Count(present, present[i])
                 /\ \A j \in 1..(i - 1) :
                        Count(present, present[j]) < Count(present, present[i])]

\* "Sin nombre"
SinNombre == <<"S", "i", "n", " ", "n", "o", "m", "b", "r", "e">>

\* The group dict of one cluster (lines 134-174).
GroupOf(subjs, members, order) ==
    LET field(f) == [k \in 1..Len(members) |-> subjs[members[k]][f]]
        univs == SeqRange(field("universidad"))
    IN  [nombre_general |-> MostCommon(field("nombre"), <<>>, SinNombre),
         materias_equivalentes |-> field("nombre"),
         universidades |-> SelectSeq(order, LAMBDA u : u \in univs),
         frecuencia |-> Cardinality(univs),
         area_predominante |-> MostCommon(field("area"), "", ""),
         tipo_predominante |-> MostCommon(field("tipo"), "", ""),
         materias |-> members]

\* result.sort(key=lambda x: x["frecuencia"], reverse=True): stable.
RECURSIVE SortByFrecuencia(_)
SortByFrecuencia(groups) ==
    IF groups = <<>> THEN <<>>
    ELSE LET g == Head(groups)
             rest == SortByFrecuencia(Tail(groups))
             before == SelectSeq(rest, LAMBDA x : x.frecuencia > g.frecuencia)
             after == SelectSeq(rest, LAMBDA x : x.frecuencia <= g.frecuencia)
         IN  before \o <<g>> \o after

InitCluster ==
    /\ pc = "cluster_start"
    /\ similarity_threshold = 0
    /\ subjects \in SeqsUpTo(SubjectPool, MaxSubjects)
    /\ labels \in [1..Len(subjects) -> 0..(MaxSubjects - 1)]
    /\ cluster_result = <<>>
    /\ IdleSynth /\ IdleCore /\ IdleCompare /\ IdleNormalize
    /\ IdleAnalyze /\ IdleEmbed

\* Lines 93-181: the whole call, given the labels of the clustering.
GroupSimilarSubjects ==
    /\ pc = "cluster_start"
    /\ \E order \in HashOrders :
          cluster_result' =
              IF subjects = <<>> THEN <<>>
              ELSE LET keys == ClusterLabels(labels)
                   IN  SortByFrecuencia(
                           [k \in 1..Len(keys) |->
                               GroupOf(subjects, ClusterSubjects(labels, keys[k]),
                                       order)])
    /\ pc' = "cluster_done"
    /\ UNCHANGED <<similarity_threshold, subjects, labels>>
    /\ UNCHANGED <<synthVars, coreVars, compareVars, normalizeVars, analyzeVars, embedVars>>

NextCluster == GroupSimilarSubjects

SpecCluster == InitCluster /\ [][NextCluster]_vars

(***************************************************************************)
(* Properties of group_similar_subjects.                                   *)
(***************************************************************************)
\* The places (group, position) of the result that hold subject i.
PlacesOf(i) ==
    {pl \in (1..Len(cluster_result)) \X (1..MaxSubjects + 1) :
        /\ pl[2] <= Len(cluster_result[pl[1]].materias)
        /\ cluster_result[pl[1]].materias[pl[2]] = i}

RECURSIVE TotalMembers(_)
TotalMembers(groups) ==
    IF groups = <<>> THEN 0
    ELSE Len(Head(groups).materias) + TotalMembers(Tail(groups))

\* C1: when group_similar_subjects has returned, every subject of the list
\* passed in is at exactly one place of exactly one group, and the groups
\* together have as many members as the list has subjects.
PartitionInvariant ==
    pc = "cluster_done" =>
        /\ \A i \in 1..Len(subjects) : Cardinality(PlacesOf(i)) = 1
        /\ TotalMembers(cluster_result) = Len(subjects)

\* Three subjects in two groups, two of them with the same fields and in
\* different groups.
WitnessPartitionInvariant ==
    /\ pc = "cluster_done"
    /\ Len(subjects) = 3
    /\ Len(cluster_result) = 2
    /\ \E i, j \in 1..3 :
          /\ i # j
          /\ subjects[i] = subjects[j]
          /\ labels[i] # labels[j]

(***************************************************************************)
(* compare_curricula: the Curriculum Comparator.                           *)
(*                                                                         *)
(* The cosine similarity of a core subject and a baseline subject is a     *)
(* function of their two texts; the table of these values is an input.     *)
(***************************************************************************)
\* A group dict as identify_core_subjects returns it.
CoreSubject(n, sems) ==
    [nombre_general |-> n,
     materias_equivalentes |-> [k \in 1..Len(sems) |-> n],
     frecuencia_relativa |-> [num |-> 1, den |-> 1],
     area_predominante |-> "X",
     tipo_predominante |-> "T",
     materias |-> [k \in 1..Len(sems) |-> Subject(n, "U1", sems[k], "X", "T")]]

CorePool ==
    { CoreSubject(<<"a">>, <<"1", "2", "2">>),
      CoreSubject(<<"b">>, <<"">>),
      CoreSubject(<<"b">>, <<"2", "x">>),
      CoreSubject(<<"a">>, <<"02">>) }

\* The semester of a baseline subject that has no 'semestre' key.
NoKey == "<no key>"

UdlaPool ==
    { [nombre |-> <<"a">>, semestre |-> "2"],
      [nombre |-> <<"b">>, semestre |-> NoKey] }

CompareNames == {<<"a">>, <<"b">>}

\* Cosine similarities, in hundredths.
SimValues == {-30, 0, 80, 92}

\* similarity_threshold of compare_curricula, in hundredths.
CompareThresholds == {0, 80}

\* most_similar_subject = None
None == 0

\* The mutant of BestMatch: a similarity equal to the best so far replaces it.
RECURSIVE BestMatchLast(_, _, _, _)
BestMatchLast(table, nombre_general, udla, i) ==
    IF i = 0 THEN [max_similarity |-> 0, most_similar_subject |-> None]
    ELSE LET prev == BestMatchLast(table, nombre_general, udla, i - 1)
             similarity == table[<<nombre_general, udla[i].nombre>>]
         IN  IF similarity >= prev.max_similarity
             THEN [max_similarity |-> similarity, most_similar_subject |-> i]
             ELSE prev

\* Lines 252-260: the best similarity over the first i baseline subjects and
\* the position of the subject that has it.
RECURSIVE BestMatch(_, _, _, _)
BestMatch(table, nombre_general, udla, i) ==
    IF i = 0 THEN [max_similarity |-> 0, most_similar_subject |-> None]
    ELSE LET prev == BestMatch(table, nombre_general, udla, i - 1)
             similarity == table[<<nombre_general, udla[i].nombre>>]
         IN  IF similarity > prev.max_similarity
             THEN [max_similarity |-> similarity, most_similar_subject |-> i]
             ELSE prev

\* int(label) where it is defined.
IntOfSemester == [l \in {"1", "2", "02"} |-> CASE l = "1" -> 1 [] OTHER -> 2]

\* str(n)
StrOfInt(n) == CASE n = 1 -> "1" [] n = 2 -> "2"

\* The labels of the members that carry one: `if m.get("semestre")`.
MemberSemesters(core_subject) ==
    LET all == [k \in 1..Len(core_subject.materias) |->
                   core_subject.materias[k].semestre]
    IN  SelectSeq(all, LAMBDA l : l # "")

\* Lines 276-284: semestre_sugerido, when every label is a number.
SemestreSugerido(core_subject) ==
    LET ls == MemberSemesters(core_subject)
        semestres_equivalentes == [k \in 1..Len(ls) |-> IntOfSemester[ls[k]]]
    IN  IF semestres_equivalentes = <<>> THEN "1"
        ELSE StrOfInt(MostCommon(semestres_equivalentes, 0, 0))

Take(s, n) == SubSeq(s, 1, IF Len(s) < n THEN Len(s) ELSE n)

InitCompare ==
    /\ pc = "compare_start"
    /\ similarity_threshold \in CompareThresholds
    /\ core_subjects \in SeqsUpTo(CorePool, MaxCore)
    /\ udla_subjects \in SeqsUpTo(UdlaPool, MaxUdlaSubjects)
    /\ sim \in [CompareNames \X CompareNames -> SimValues]
    /\ existing_subjects = <<>>
    /\ missing_subjects = <<>>
    /\ cidx = 0
    /\ branch = <<>>
    /\ IdleSynth /\ IdleCore /\ IdleCluster /\ IdleNormalize
    /\ IdleAnalyze /\ IdleEmbed

\* The mutant of StartCompare: the loop begins at the second core subject.
StartCompareAtSecond ==
    /\ pc = "compare_start"
    /\ pc' = "compare_loop"
    /\ cidx' = 2
    /\ UNCHANGED <<similarity_threshold, core_subjects, udla_subjects, sim,
                   existing_subjects, missing_subjects, branch>>
    /\ UNCHANGED <<synthVars, coreVars, clusterVars, normalizeVars, analyzeVars, embedVars>>

\* Lines 228-245: the embeddings of the baseline and the two empty lists.
StartCompare ==
    /\ pc = "compare_start"
    /\ pc' = "compare_loop"
    /\ cidx' = 1
    /\ UNCHANGED <<similarity_threshold, core_subjects, udla_subjects, sim,
                   existing_subjects, missing_subjects, branch>>
    /\ UNCHANGED <<synthVars, coreVars, clusterVars, normalizeVars, analyzeVars, embedVars>>

\* Lines 247-294: one iteration of the loop over the core subjects.
\* most_similar_subject["nombre"] raises TypeError when it is None, and
\* int(label) raises ValueError when a label is not a number.
CompareCoreSubject ==
    /\ pc = "compare_loop"
    /\ cidx <= Len(core_subjects)
    /\ LET core_subject == core_subjects[cidx]
           best == BestMatch(sim, core_subject.nombre_general, udla_subjects,
                             Len(udla_subjects))
       IN  IF best.max_similarity >= similarity_threshold
           THEN IF best.most_similar_subject = None
                THEN /\ pc' = "compare_raised"
                     /\ branch' = Append(branch, "matched_raised")
                     /\ UNCHANGED <<existing_subjects, missing_subjects>>
                ELSE LET most_similar_subject ==
                             udla_subjects[best.most_similar_subject]
                     IN  /\ existing_subjects' = Append(existing_subjects,
                               [materia_troncal |-> core_subject.nombre_general,
                                materia_udla |-> most_similar_subject.nombre,
                                similitud |-> best.max_similarity,
                                area |-> core_subject.area_predominante,
                                tipo |-> core_subject.tipo_predominante,
                                semestre |->
                                    IF most_similar_subject.semestre = NoKey
                                    THEN "1" ELSE most_similar_subject.semestre])
                         /\ branch' = Append(branch, "matched")
                         /\ UNCHANGED <<pc, missing_subjects>>
           ELSE IF \E l \in SeqRange(MemberSemesters(core_subject)) :
                       l \notin DOMAIN IntOfSemester
                THEN /\ pc' = "compare_raised"
                     /\ branch' = Append(branch, "missing_raised")
                     /\ UNCHANGED <<existing_subjects, missing_subjects>>
                ELSE /\ missing_subjects' = Append(missing_subjects,
                           [nombre_recomendado |-> core_subject.nombre_general,
                            alternativas |->
                                Take(core_subject.materias_equivalentes, 5),
                            frecuencia |-> core_subject.frecuencia_relativa,
                            area |-> core_subject.area_predominante,
                            tipo |-> core_subject.tipo_predominante,
                            semestre_sugerido |-> SemestreSugerido(core_subject)])
                     /\ branch' = Append(branch, "missing")
                     /\ UNCHANGED <<pc, existing_subjects>>
    /\ cidx' = cidx + 1
    /\ UNCHANGED <<similarity_threshold, core_subjects, udla_subjects, sim>>
    /\ UNCHANGED <<synthVars, coreVars, clusterVars, normalizeVars, analyzeVars, embedVars>>

\* Lines 296-299: the two lists are returned.
ReturnComparison ==
    /\ pc = "compare_loop"
    /\ cidx > Len(core_subjects)
    /\ pc' = "compare_done"
    /\ UNCHANGED <<similarity_threshold, compareVars>>
    /\ UNCHANGED <<synthVars, coreVars, clusterVars, normalizeVars, analyzeVars, embedVars>>

NextCompare == StartCompare \/ CompareCoreSubject \/ ReturnComparison

SpecCompare == InitCompare /\ [][NextCompare]_vars

(***************************************************************************)
(* Properties of compare_curricula.                                        *)
(***************************************************************************)
\* The similarities of a core subject's name to the baseline subjects.
SimilaritiesOf(n) ==
    {sim[<<n, udla_subjects[j].nombre>>] : j \in 1..Len(udla_subjects)}

\* The highest similarity of a core subject's name to a baseline subject is
\* at least the threshold.
ReachesThreshold(n) ==
    \E v \in SimilaritiesOf(n) : v >= similarity_threshold

\* A matched record of the core subject n names a baseline subject whose
\* similarity is the highest, and carries the semester of that subject.
IsMatchedRecordOf(r, n) ==
    /\ r.materia_troncal = n
    /\ \E j \in 1..Len(udla_subjects) :
          /\ \A v \in SimilaritiesOf(n) : v <= sim[<<n, udla_subjects[j].nombre>>]
          /\ r.materia_udla = udla_subjects[j].nombre
          /\ r.similitud = sim[<<n, udla_subjects[j].nombre>>]
          /\ r.semestre = IF udla_subjects[j].semestre = NoKey
                          THEN "1" ELSE udla_subjects[j].semestre

\* C10: when the call of compare_curricula is over, a core subject whose
\* highest similarity to the baseline subjects is at least the threshold has
\* a matched record that names a baseline subject with that similarity and
\* carries its semester, and has no missing record; every other core subject
\* has a missing record and no matched record.
MatchedIffAtLeastThreshold ==
    pc \in {"compare_done", "compare_raised"} =>
        \A i \in 1..Len(core_subjects) :
            LET n == core_subjects[i].nombre_general
            IN  IF ReachesThreshold(n)
                THEN /\ \E r \in SeqRange(existing_subjects) : IsMatchedRecordOf(r, n)
                     /\ \A r \in SeqRange(missing_subjects) : r.nombre_recomendado # n
                ELSE /\ \E r \in SeqRange(missing_subjects) : r.nombre_recomendado = n
                     /\ \A r \in SeqRange(existing_subjects) : r.materia_troncal # n

\* The position in missing_subjects of the record of the core subject i.
MissingIndex(i) == Cardinality({j \in 1..i : branch[j] = "missing"})

\* The labels that no other label of the list outnumbers.
MostCommonLabels(ls) ==
    {l \in SeqRange(ls) : \A m \in SeqRange(ls) : Count(ls, m) <= Count(ls, l)}

\* C11: every core subject that the loop of compare_curricula classified as
\* missing has a missing record, and the semestre_sugerido of the record is a
\* most common semester label of the members of the core subject, whatever
\* the labels are, or "1" when no member carries a label.
SuggestedSemesterIsMostCommonLabel ==
    \A i \in 1..Len(branch) :
        branch[i] \in {"missing", "missing_raised"} =>
            /\ branch[i] = "missing"
            /\ LET ls == MemberSemesters(core_subjects[i])
                   r == missing_subjects[MissingIndex(i)]
               IN  IF ls = <<>> THEN r.semestre_sugerido = "1"
                   ELSE r.semestre_sugerido \in MostCommonLabels(ls)

(***************************************************************************)
(* normalize_text: the Text Normalizer.                                    *)
(*                                                                         *)
(* The argument is any Python value: a str, None, an int or a list.         *)
(***************************************************************************)
PyStr(s) == [kind |-> "str", value |-> s]
PyNone == [kind |-> "none", value |-> <<>>]

\* The values of the argument that are not strings: None, 0, 5, [], ['a'].
NonStrings ==
    { PyNone,
      [kind |-> "int", value |-> <<"0">>], [kind |-> "int", value |-> <<"5">>],
      [kind |-> "list", value |-> <<>>], [kind |-> "list", value |-> <<"a">>] }

\* The characters of the strings passed in.
TextAlphabet == {"l", "b", "Á", ".", " "}

MaxTextLen == 6     \* characters of a string passed to normalize_text

\* bool(text)
Truthy(x) ==
    CASE x.kind = "none" -> FALSE
      [] x.kind = "int" -> x.value # <<"0">>
      [] OTHER -> x.value # <<>>

\* The mutant of Rejected: the isinstance test is dropped.
RejectedWhenFalsy(x) == ~Truthy(x)

\* Line 21: `not text or not isinstance(text, str)`.
Rejected(x) == ~Truthy(x) \/ x.kind # "str"

\* Lines 28-29: NFD decomposition without the combining marks.
StripAccentChar(c) == CASE c = "á" -> "a" [] OTHER -> c

StripAccents(s) == [i \in 1..Len(s) |-> StripAccentChar(s[i])]

AsciiLetters ==
    {"a", "b", "c", "d", "e", "f", "g", "h", "i", "j", "k", "l", "m", "n",
     "o", "p", "q", "r", "s", "t", "u", "v", "w", "x", "y", "z"}

Digits == {"0", "1", "2", "3", "4", "5", "6", "7", "8", "9"}

\* \w of a str pattern, on lower-case text without accents.
IsWordChar(c) == c \in AsciiLetters \cup Digits \cup {"_"}

\* \b before the character at position p (p = Len(s) + 1 is the end).
WordBoundary(s, p) ==
    LET before == p > 1 /\ IsWordChar(s[p - 1])
        after == p <= Len(s) /\ IsWordChar(s[p])
    IN  before # after

\* Lines 32-47: the abbreviations without their final '.', in dict order.
Abreviaturas ==
    << <<<<"i", "n", "g">>,
         <<"i", "n", "g", "e", "n", "i", "e", "r", "i", "a">>>>,
       <<<<"m", "a", "t">>,
         <<"m", "a", "t", "e", "m", "a", "t", "i", "c", "a">>>>,
       <<<<"p", "r", "o", "g">>,
         <<"p", "r", "o", "g", "r", "a", "m", "a", "c", "i", "o", "n">>>>,
       <<<<"s", "i", "s", "t">>,
         <<"s", "i", "s", "t", "e", "m", "a", "s">>>>,
       <<<<"c", "o", "m", "p">>,
         <<"c", "o", "m", "p", "u", "t", "a", "c", "i", "o", "n">>>>,
       <<<<"l", "a", "b">>,
         <<"l", "a", "b", "o", "r", "a", "t", "o", "r", "i", "o">>>>,
       <<<<"c", "a", "l", "c">>,
         <<"c", "a", "l", "c", "u", "l", "o">>>>,
       <<<<"e", "s", "t">>,
         <<"e", "s", "t", "a", "d", "i", "s", "t", "i", "c", "a">>>>,
       <<<<"a", "d", "m">>,
         <<"a", "d", "m", "i", "n", "i", "s", "t", "r", "a", "c", "i", "o", "n">>>>,
       <<<<"e", "c", "o", "n">>,
         <<"e", "c", "o", "n", "o", "m", "i", "a">>>>,
       <<<<"p", "r", "a", "c">>,
         <<"p", "r", "a", "c", "t", "i", "c", "a">>>>,
       <<<<"t", "e", "c">>,
         <<"t", "e", "c", "n", "o", "l", "o", "g", "i", "a">>>>,
       <<<<"a", "l", "g">>,
         <<"a", "l", "g", "o", "r", "i", "t", "m", "o", "s">>>> >>

\* The pattern \b<stem>.\b of line 50 matches at position i: the '.' of the
\* abbreviation is not escaped and stands for any character but a newline.
MatchesAt(s, i, stem) ==
    /\ i + Len(stem) <= Len(s)
    /\ WordBoundary(s, i)
    /\ SubSeq(s, i, i + Len(stem) - 1) = stem
    /\ s[i + Len(stem)] # "\n"
    /\ WordBoundary(s, i + Len(stem) + 1)

\* Line 50: re.sub of one abbreviation, from position i on.
RECURSIVE SubAbbreviation(_, _, _, _)
SubAbbreviation(s, i, stem, completo) ==
    IF i > Len(s) THEN <<>>
    ELSE IF MatchesAt(s, i, stem)
         THEN completo \o SubAbbreviation(s, i + Len(stem) + 1, stem, completo)
         ELSE <<s[i]>> \o SubAbbreviation(s, i + 1, stem, completo)

\* Lines 49-50: the loop over the first k abbreviations.
RECURSIVE ExpandAbbreviations(_, _)
ExpandAbbreviations(s, k) ==
    IF k = 0 THEN s
    ELSE SubAbbreviation(ExpandAbbreviations(s, k - 1), 1,
                         Abreviaturas[k][1], Abreviaturas[k][2])

\* Line 53: re.sub(r'[^a-z\s]', ' ', text)
KeepLetters(s) ==
    [i \in 1..Len(s) |->
        IF s[i] \in AsciiLetters \cup Whitespace THEN s[i] ELSE " "]

\* Line 56: re.sub(r'\s+', ' ', text)
RECURSIVE CollapseSpaces(_)
CollapseSpaces(s) ==
    IF s = <<>> THEN <<>>
    ELSE IF Head(s) \in Whitespace
         THEN <<" ">> \o CollapseSpaces(LStrip(Tail(s)))
         ELSE <<Head(s)>> \o CollapseSpaces(Tail(s))

\* Lines 25-58, for a str that is not empty.
NormalizeStr(s) ==
    Strip(CollapseSpaces(KeepLetters(
        ExpandAbbreviations(StripAccents(Lower(s)), Len(Abreviaturas)))))

InitNormalize ==
    /\ pc = "normalize_start"
    /\ text \in {PyStr(s) : s \in SeqsUpTo(TextAlphabet, MaxTextLen)} \cup NonStrings
    /\ normalized = <<>>
    /\ similarity_threshold = 0
    /\ IdleSynth /\ IdleCore /\ IdleCluster /\ IdleCompare /\ IdleAnalyze /\ IdleEmbed

\* Lines 10-58: one call of normalize_text; text.lower() of a value that is
\* not a str raises AttributeError.
CallNormalizeText(arg) ==
    /\ IF Rejected(arg)
       THEN /\ normalized' = Append(normalized, <<>>)
            /\ pc' = IF normalized = <<>> THEN "normalize_once" ELSE "normalize_twice"
       ELSE IF arg.kind # "str"
            THEN /\ pc' = "normalize_raised"
                 /\ UNCHANGED normalized
            ELSE /\ normalized' = Append(normalized, NormalizeStr(arg.value))
                 /\ pc' = IF normalized = <<>> THEN "normalize_once"
                          ELSE "normalize_twice"
    /\ UNCHANGED <<text, similarity_threshold>>
    /\ UNCHANGED <<synthVars, coreVars, clusterVars, compareVars, analyzeVars, embedVars>>

\* normalize_text(text)
NormalizeInput == pc = "normalize_start" /\ CallNormalizeText(text)

\* normalize_text(normalize_text(text))
NormalizeOutput == pc = "normalize_once" /\ CallNormalizeText(PyStr(normalized[1]))

NextNormalize == NormalizeInput \/ NormalizeOutput

SpecNormalize == InitNormalize /\ [][NextNormalize]_vars

(***************************************************************************)
(* Properties of normalize_text.                                           *)
(***************************************************************************)
\* C12: normalizing the result of normalize_text again returns it unchanged.
NormalizeIdempotent ==
    pc = "normalize_twice" => normalized[2] = normalized[1]

\* C13: normalize_text does not raise, what it returns is a string of
\* lower-case letters and spaces, and it returns the empty string for the
\* empty string, for None and for a value that is not a string.
NormalizeTotal ==
    /\ pc # "normalize_raised"
    /\ \A k \in 1..Len(normalized) :
          \A i \in 1..Len(normalized[k]) : normalized[k][i] \in AsciiLetters \cup {" "}
    /\ (pc # "normalize_start" /\ (text.kind # "str" \/ text.value = <<>>)) =>
          normalized[1] = <<>>

\* normalize_text has returned "" for the int 5.
WitnessNormalizeTotal ==
    /\ pc = "normalize_once"
    /\ text = [kind |-> "int", value |-> <<"5">>]
    /\ normalized = << <<>> >>

(***************************************************************************)
(* The embedding provider (utils/embedding_utils.py).                      *)
(*                                                                         *)
(* An embedding is either the zero vector or the vector the model encodes  *)
(* for a text; the cosine similarity of two encoded texts is an input.     *)
(***************************************************************************)
\* The provider: the model is loaded and encodes, there is no model
\* (get_embedding_model returns None), or encode raises.
Providers == {"ok", "no_model", "encode_error"}

\* np.zeros(384)
ZeroVector == [zero |-> TRUE, of |-> <<>>]

\* model.encode(text)
Encoded(t) == [zero |-> FALSE, of |-> t]

\* The cache file of batch_embed_documents: absent, or the pickled dict
\* {'documents': ..., 'embeddings': ...} of lines 155-156.
NoCache == [present |-> FALSE, documents |-> <<>>, embeddings |-> <<>>]
CacheData(documents, embeddings) ==
    [present |-> TRUE, documents |-> documents, embeddings |-> embeddings]

\* model.encode(documents), line 150
EncodedAll(documents) == [i \in 1..Len(documents) |-> Encoded(documents[i])]

\* np.zeros((len(documents), 384)), lines 147 and 163
ZeroMatrix(documents) == [i \in 1..Len(documents) |-> ZeroVector]

\* The cache file a call that encoded documents leaves behind.
CacheOf(documents) == CacheData(documents, EncodedAll(documents))

\* Lines 51-73.
GetEmbedding(p, t) == IF t = <<>> \/ p # "ok" THEN ZeroVector ELSE Encoded(t)

\* The mutant of BatchEmbedDocuments: the fallback matrix is stored as well.
BatchEmbedDocumentsStoringFallback(p, cache, documents) ==
    IF documents = <<>>
    THEN [embeddings |-> <<>>, cache |-> cache]
    ELSE IF cache.present /\ cache.documents = documents
    THEN [embeddings |-> cache.embeddings, cache |-> cache]
    ELSE IF p # "ok"
    THEN [embeddings |-> ZeroMatrix(documents),
          cache |-> CacheData(documents, ZeroMatrix(documents))]
    ELSE [embeddings |-> EncodedAll(documents),
          cache |-> CacheData(documents, EncodedAll(documents))]

\* Lines 105-163 with use_cache on: the embeddings returned and the cache
\* file left behind.
BatchEmbedDocuments(p, cache, documents) ==
    IF documents = <<>>
    THEN [embeddings |-> <<>>, cache |-> cache]
    ELSE IF cache.present /\ cache.documents = documents
    THEN [embeddings |-> cache.embeddings, cache |-> cache]
    ELSE IF p # "ok"
    THEN [embeddings |-> ZeroMatrix(documents), cache |-> cache]
    ELSE [embeddings |-> EncodedAll(documents),
          cache |-> CacheData(documents, EncodedAll(documents))]

\* Lines 75-103, in hundredths; table holds the cosine of two encoded texts.
CalculateCosineSimilarity(embedding1, embedding2, table) ==
    IF embedding1.zero \/ embedding2.zero THEN 0
    ELSE table[<<embedding1.of, embedding2.of>>]

\* AgglomerativeClustering(metric='cosine').fit_predict raises ValueError for
\* fewer than two samples and for a sample that is the zero vector.
FitPredictRaises(embeddings) ==
    \/ Len(embeddings) < 2
    \/ \E i \in 1..Len(embeddings) : embeddings[i].zero

\* The labelings of n samples, up to the names of the labels.
Labelings(n) ==
    {l \in [1..n -> 0..(n - 1)] :
        \A i \in 1..n : \/ l[i] = 0
                        \/ \E j \in 1..(i - 1) : l[j] = l[i] - 1}

(***************************************************************************)
(* flatten_curriculum of utils/data_utils.py, the one analyze_career       *)
(* imports.                                                                 *)
(***************************************************************************)
\* "Universidad de las Américas (UDLA)": the institution U2 of the model.
UdlaName == "U2"

\* A document of the collection: the keys it has and their values.  The
\* semesters of malla_curricular are iterated in the order of SemOrder.
Document(keys, u, malla) ==
    [is_none |-> FALSE, keys |-> keys, universidad |-> u, carrera |-> "C",
     malla_curricular |-> malla]

\* None
NoDocument ==
    [is_none |-> TRUE, keys |-> {}, universidad |-> "", carrera |-> "",
     malla_curricular |-> <<>>]

AllKeys == {"universidad", "carrera", "malla_curricular"}

\* The documents of the collection: the baseline in the plain format, in the
\* enriched format and without subjects; another institution in the plain and
\* in the enriched format; a document without malla_curricular and one
\* without universidad.
DocPool ==
    { Document(AllKeys, UdlaName, [s \in {"1"} |-> <<StrEntry(<<"a">>)>>]),
      Document(AllKeys, UdlaName, [s \in {"1"} |-> <<DictEntry(<<"b">>)>>]),
      Document(AllKeys, UdlaName, [s \in {"1"} |-> <<>>]),
      Document(AllKeys, "U1",
               [s \in {"1", "2"} |-> IF s = "1" THEN <<StrEntry(<<"a">>)>>
                                     ELSE <<StrEntry(<<"b">>)>>]),
      Document(AllKeys, "U1", [s \in {"1"} |-> <<DictEntry(<<"a">>)>>]),
      Document({"universidad", "carrera"}, "U1", <<>>),
      Document({"carrera", "malla_curricular"}, "",
               [s \in {"1"} |-> <<StrEntry(<<"b">>)>>]) }

MaxDocs == 2    \* documents of the collection that match the career

\* curriculum.get(key, '')
DocGet(curriculum, key) == IF key \in curriculum.keys THEN curriculum[key] ELSE ""

\* A subject dict of the flat list; NoKey stands for a key it does not have.
FlatSubject(n, sem, u, c) ==
    [nombre |-> n, semestre |-> sem, universidad |-> u, carrera |-> c]

\* Lines 149-152: the format is read off the first subject of the first
\* semester.
IsEnriched(malla) ==
    LET sems == SemestersOf(malla)
    IN  /\ sems # <<>>
        /\ malla[Head(sems)] # <<>>
        /\ malla[Head(sems)][1].kind = "dict"

\* Lines 155-171, for one semester: the enriched branch copies the subject
\* object and sets 'semestre'; the plain branch builds the four keys.
FlattenSemester(curriculum, semestre, is_enriched) ==
    LET materias == curriculum.malla_curricular[semestre]
    IN  [k \in 1..Len(materias) |->
            IF is_enriched
            THEN FlatSubject(materias[k].nombre, semestre, NoKey, NoKey)
            ELSE FlatSubject(materias[k].nombre, semestre,
                             DocGet(curriculum, "universidad"),
                             DocGet(curriculum, "carrera"))]

RECURSIVE FlattenSemesters(_, _, _)
FlattenSemesters(curriculum, sems, is_enriched) ==
    IF sems = <<>> THEN <<>>
    ELSE FlattenSemester(curriculum, Head(sems), is_enriched)
             \o FlattenSemesters(curriculum, Tail(sems), is_enriched)

\* curriculum['malla_curricular'] raises for None (TypeError) and for a
\* document without the key (KeyError); materia.copy() raises AttributeError
\* for a plain string in a document read as enriched.
FlattenRaises(curriculum) ==
    \/ curriculum.is_none
    \/ "malla_curricular" \notin curriculum.keys
    \/ /\ IsEnriched(curriculum.malla_curricular)
       /\ \E s \in DOMAIN curriculum.malla_curricular :
             \E k \in 1..Len(curriculum.malla_curricular[s]) :
                 curriculum.malla_curricular[s][k].kind # "dict"

\* Lines 133-173, when the call returns.
FlattenCurriculum(curriculum) ==
    FlattenSemesters(curriculum, SemestersOf(curriculum.malla_curricular),
                     IsEnriched(curriculum.malla_curricular))

RECURSIVE FlattenAll(_)
FlattenAll(docs) ==
    IF docs = <<>> THEN <<>>
    ELSE FlattenCurriculum(Head(docs)) \o FlattenAll(Tail(docs))

\* s.get(key, '') of a subject dict
SubjectGet(v) == IF v = NoKey THEN "" ELSE v

\* The subject as group_similar_subjects reads it.
AsSubject(s) ==
    Subject(s.nombre, SubjectGet(s.universidad), s.semestre, "", "")

(***************************************************************************)
(* CurriculumAnalyzer.analyze_career: the pipeline.                        *)
(*                                                                         *)
(* The stages run as the actions of their own sections; the actions below  *)
(* are the steps of analyze_career between them.                           *)
(***************************************************************************)
\* The defaults of the constructor, in hundredths, and the threshold that
\* analyze_career passes to generate_recommendations.
AnalyzerSimilarityThresholds == {0, 80}
AnalyzerCoreThreshold == 70
RecommendationThreshold == 9000

\* The cache files an earlier analysis can have left behind.
CachePool == {NoCache, CacheOf(<<<<"a">>, <<"b">>>>)}

\* Cosine similarities of two encoded names, in hundredths.
AnalyzeSimValues == {0, 92}

\* The measures of fuzzywuzzy for one pair of names.
AnalyzeFuzzProfiles ==
    { [ratio |-> 0,  partial_ratio |-> 0, token_sort_ratio |-> 0],
      [ratio |-> 92, partial_ratio |-> 0, token_sort_ratio |-> 0] }

\* abet_recommendations: no criteria loaded, the recommendations, or the
\* error of the ABET analysis.
AbetOutcomes == {"{}", "recommendations", "error"}

\* {"error": ...}
ErrorResult(e) == [error |-> e]

\* collection.find_one({"universidad": "Universidad de las Américas (UDLA)", ...})
FindOne(docs) ==
    LET hits == SelectSeq(docs, LAMBDA doc :
                    "universidad" \in doc.keys /\ doc.universidad = UdlaName)
    IN  IF hits = <<>> THEN NoDocument ELSE Head(hits)

\* The mutant of MissingBaseline: the test of line 177 is dropped.
MissingBaselineIgnored(doc) == FALSE

\* Line 177: `not udla_doc`.
MissingBaseline(doc) == doc.is_none

InitAnalyze ==
    /\ pc = "analyze_start"
    /\ similarity_threshold \in AnalyzerSimilarityThresholds
    /\ db \in {"None", "connected"}
    /\ core_threshold = AnalyzerCoreThreshold
    /\ collection \in SeqsUpTo(DocPool, MaxDocs)
    /\ provider \in Providers
    /\ cache_file \in CachePool
    /\ career_docs = <<>>
    /\ udla_doc = NoDocument
    /\ all_subjects = <<>>
    /\ analysis = <<>>
    /\ IdleSynth /\ IdleCore /\ IdleCluster /\ IdleCompare /\ IdleNormalize /\ IdleEmbed

\* Lines 159-178: the connection, the documents of the career and the
\* baseline document.  Each query returns nothing when it raises.
FetchDocuments ==
    /\ pc = "analyze_start"
    /\ IF db = "None"
       THEN /\ analysis' = ErrorResult("no connection")
            /\ pc' = "analyze_done"
            /\ UNCHANGED <<career_docs, udla_doc>>
       ELSE \E docs \in {collection, <<>>} :
            \E udla \in {FindOne(collection), NoDocument} :
               /\ career_docs' = docs
               /\ IF docs = <<>>
                  THEN /\ analysis' = ErrorResult("no documents")
                       /\ pc' = "analyze_done"
                       /\ UNCHANGED udla_doc
                  ELSE /\ udla_doc' = udla
                       /\ IF MissingBaseline(udla)
                          THEN /\ analysis' = ErrorResult("no UDLA document")
                               /\ pc' = "analyze_done"
                          ELSE /\ pc' = "analyze_flatten"
                               /\ UNCHANGED analysis
    /\ UNCHANGED <<similarity_threshold, db, core_threshold, collection,
                   provider, cache_file,
                   all_subjects>>
    /\ UNCHANGED <<synthVars, coreVars, clusterVars, compareVars, normalizeVars, embedVars>>

\* Lines 290-293: the handler of the try block.
Catch(e) ==
    /\ analysis' = ErrorResult(e)
    /\ pc' = "analyze_done"

\* Lines 180-186: the flat list of the subjects of all the documents.
FlattenDocuments ==
    /\ pc = "analyze_flatten"
    /\ IF \E i \in 1..Len(career_docs) : FlattenRaises(career_docs[i])
       THEN /\ Catch("flatten_curriculum raised")
            /\ UNCHANGED <<all_subjects, subjects>>
       ELSE /\ all_subjects' = FlattenAll(career_docs)
            /\ subjects' = [i \in 1..Len(FlattenAll(career_docs)) |->
                               AsSubject(FlattenAll(career_docs)[i])]
            /\ pc' = "analyze_fit"
            /\ UNCHANGED analysis
    /\ UNCHANGED <<similarity_threshold, db, core_threshold, collection,
                   provider, cache_file,
                   career_docs, udla_doc, labels, cluster_result>>
    /\ UNCHANGED <<synthVars, coreVars, compareVars, normalizeVars, embedVars>>

\* The mutant of NoSubjects: the test of line 93 is dropped.
NoSubjectsIgnored(subjs) == FALSE

\* Line 93: `not subjects`.
NoSubjects(subjs) == subjs = <<>>

\* group_similar_subjects, lines 93-124: the embeddings of the names and the
\* labels of the clustering.
FitPredict ==
    /\ pc = "analyze_fit"
    /\ IF NoSubjects(subjects)
       THEN /\ pc' = "cluster_start"
            /\ UNCHANGED <<labels, cache_file, analysis>>
       ELSE LET combined_texts == [i \in 1..Len(subjects) |-> subjects[i].nombre]
                batch == BatchEmbedDocuments(provider, cache_file, combined_texts)
            IN  /\ cache_file' = batch.cache
                /\ IF FitPredictRaises(batch.embeddings)
                   THEN /\ Catch("fit_predict raised")
                        /\ UNCHANGED labels
                   ELSE /\ labels' \in Labelings(Len(subjects))
                        /\ pc' = "cluster_start"
                        /\ UNCHANGED analysis
    /\ UNCHANGED <<similarity_threshold, db, core_threshold, collection,
                   provider,
                   career_docs, udla_doc, all_subjects, subjects, cluster_result>>
    /\ UNCHANGED <<synthVars, coreVars, compareVars, normalizeVars, embedVars>>

\* Lines 198-206: the institutions analyzed and the call of
\* identify_core_subjects with the groups.
CallIdentifyCoreSubjects ==
    /\ pc = "cluster_done"
    /\ IF \E i \in 1..Len(career_docs) : "universidad" \notin career_docs[i].keys
       THEN /\ Catch("KeyError: 'universidad'")
            /\ UNCHANGED coreVars
       ELSE /\ \E order \in HashOrders :
                 universities' = SelectSeq(order, LAMBDA u :
                     \E i \in 1..Len(career_docs) : career_docs[i].universidad = u)
            /\ group_heap' = [g \in 1..Len(cluster_result) |->
                   cluster_result[g] @@ [frecuencia_relativa |-> Unset]]
            /\ subject_groups' = [g \in 1..Len(cluster_result) |-> g]
            /\ core_results' = [t \in CoreThresholds |-> NotCalled]
            /\ pc' = "core"
            /\ UNCHANGED analysis
    /\ UNCHANGED <<similarity_threshold, db, core_threshold, collection,
                   provider, cache_file,
                   career_docs, udla_doc, all_subjects>>
    /\ UNCHANGED <<synthVars, clusterVars, compareVars, normalizeVars, embedVars>>

\* A group as compare_curricula reads it: its members are subject dicts.
AsCoreSubject(group) ==
    [nombre_general |-> group.nombre_general,
     materias_equivalentes |-> group.materias_equivalentes,
     frecuencia_relativa |-> group.frecuencia_relativa,
     area_predominante |-> group.area_predominante,
     tipo_predominante |-> group.tipo_predominante,
     materias |-> [k \in 1..Len(group.materias) |-> subjects[group.materias[k]]]]

\* The cosine of every pair of names under the provider, given the table
\* of the cosines of the encoded names.
SimilarityTable(p, udla_embeddings, udla_names, table) ==
    [pair \in CompareNames \X CompareNames |->
        IF \E j \in 1..Len(udla_names) : udla_names[j] = pair[2]
        THEN LET j == CHOOSE j \in 1..Len(udla_names) : udla_names[j] = pair[2]
             IN  CalculateCosineSimilarity(GetEmbedding(p, pair[1]),
                                           udla_embeddings[j], table)
        ELSE 0]

\* Lines 212-219 and compare_curricula up to line 241: the subjects of the
\* baseline, their embeddings, and the call of compare_curricula.
CallCompareCurricula ==
    /\ pc = "core"
    /\ core_results[core_threshold] # NotCalled
    /\ IF core_results[core_threshold].status # "returned"
       THEN /\ Catch(core_results[core_threshold].status)
            /\ UNCHANGED <<compareVars, cache_file>>
       ELSE IF FlattenRaises(udla_doc)
       THEN /\ Catch("flatten_curriculum raised")
            /\ UNCHANGED <<compareVars, cache_file>>
       ELSE LET selected == core_results[core_threshold].core_subjects
                flat == FlattenCurriculum(udla_doc)
                udla_names == [j \in 1..Len(flat) |-> flat[j].nombre]
                batch == BatchEmbedDocuments(provider, cache_file, udla_names)
                core_names == {group_heap[selected[k]].nombre_general :
                                  k \in 1..Len(selected)}
            IN  /\ core_subjects' = [k \in 1..Len(selected) |->
                                        AsCoreSubject(group_heap[selected[k]])]
                /\ udla_subjects' = flat
                /\ cache_file' = batch.cache
                /\ \E table \in [CompareNames \X CompareNames -> AnalyzeSimValues] :
                      /\ \A pair \in CompareNames \X CompareNames :
                            (pair[1] \notin core_names
                               \/ pair[2] \notin SeqRange(udla_names))
                            => table[pair] = 0
                      /\ sim' = SimilarityTable(provider, batch.embeddings,
                                                udla_names, table)
                /\ existing_subjects' = <<>>
                /\ missing_subjects' = <<>>
                /\ cidx' = 0
                /\ branch' = <<>>
                /\ pc' = "compare_start"
                /\ UNCHANGED analysis
    /\ UNCHANGED <<similarity_threshold, db, core_threshold, collection,
                   provider,
                   career_docs, udla_doc, all_subjects>>
    /\ UNCHANGED <<synthVars, coreVars, clusterVars, normalizeVars, embedVars>>

\* compare_curricula raised: the handler of lines 290-293.
CatchCompareCurricula ==
    /\ pc = "compare_raised"
    /\ Catch("compare_curricula raised")
    /\ UNCHANGED <<similarity_threshold, db, core_threshold, collection,
                   provider, cache_file,
                   career_docs, udla_doc, all_subjects>>
    /\ UNCHANGED <<synthVars, coreVars, clusterVars, compareVars, normalizeVars, embedVars>>

\* Lines 227-232: the call of generate_recommendations with the comparison
\* and the baseline document.
CallGenerateRecommendations ==
    /\ pc = "compare_done"
    /\ LET malla == udla_doc.malla_curricular
           added == {NormalizeName(missing_subjects[k].nombre_recomendado) :
                        k \in 1..Len(missing_subjects)}
       IN  /\ comparison' = missing_subjects
           /\ udla_curriculum' = [malla_curricular |-> [s \in DOMAIN malla |-> InRef(s)]]
           /\ heap' = [r \in ListRefs |->
                          IF r.kind = "in" /\ r.sem \in DOMAIN malla
                          THEN malla[r.sem] ELSE <<>>]
           /\ udla_before' = malla
           /\ fuzz' \in {f \in [FuzzPairs -> AnalyzeFuzzProfiles] :
                            \A pair \in FuzzPairs :
                                pair[1] \notin added => f[pair].ratio = 0}
    /\ similarity_threshold' = RecommendationThreshold
    /\ recommended_curriculum' = <<>>
    /\ all_existing_subjects' = <<>>
    /\ idx' = 0
    /\ verdict' = <<>>
    /\ pc' = "synth_start"
    /\ UNCHANGED analyzeVars
    /\ UNCHANGED <<coreVars, clusterVars, compareVars, normalizeVars, embedVars>>

\* Lines 234-288: the ABET analysis, which keeps its own errors, and the
\* result.
ReturnResult ==
    /\ pc = "synth_done"
    /\ \E abet \in AbetOutcomes :
          analysis' =
              [carrera_objetivo |-> "C",
               universidades_analizadas |-> universities,
               udla_base |-> udla_doc.carrera,
               materias_fuertes |->
                   [k \in 1..Len(core_subjects) |->
                       [nombre_general |-> core_subjects[k].nombre_general,
                        materias_equivalentes |->
                            Take(core_subjects[k].materias_equivalentes, 5),
                        frecuencia |-> core_subjects[k].frecuencia_relativa,
                        area_predominante |-> core_subjects[k].area_predominante,
                        tipo_predominante |-> core_subjects[k].tipo_predominante,
                        presente_en_udla |->
                            \E m \in SeqRange(existing_subjects) :
                                m.materia_troncal = core_subjects[k].nombre_general]],
               materias_existentes |->
                   [k \in 1..Len(existing_subjects) |-> existing_subjects[k].materia_udla],
               materias_a_agregar |->
                   [k \in 1..Len(missing_subjects) |->
                       missing_subjects[k].nombre_recomendado],
               malla_recomendada_udla |->
                   [s \in DOMAIN recommended_curriculum |-> Recommended(s)],
               analisis_abet |-> abet]
    /\ pc' = "analyze_done"
    /\ UNCHANGED <<similarity_threshold, db, core_threshold, collection,
                   provider, cache_file,
                   career_docs, udla_doc, all_subjects>>
    /\ UNCHANGED <<synthVars, coreVars, clusterVars, compareVars, normalizeVars, embedVars>>

NextAnalyze ==
    \/ FetchDocuments
    \/ FlattenDocuments
    \/ FitPredict
    \/ GroupSimilarSubjects
    \/ CallIdentifyCoreSubjects
    \/ IdentifyCoreSubjects(core_threshold)
    \/ CallCompareCurricula
    \/ StartCompare
    \/ CompareCoreSubject
    \/ ReturnComparison
    \/ CatchCompareCurricula
    \/ CallGenerateRecommendations
    \/ CopyBaseline
    \/ ProcessSubject
    \/ ReturnRecommended
    \/ ReturnResult

SpecAnalyze == InitAnalyze /\ [][NextAnalyze]_vars

(***************************************************************************)
(* Properties of the pipeline.                                             *)
(***************************************************************************)
\* The steps of analyze_career that come before the clustering has returned.
BeforeClusterReturns ==
    pc \in {"analyze_start", "analyze_flatten", "analyze_fit", "cluster_start"}

\* C14: with a provider that has no model or whose encode raises, every
\* cosine similarity that compare_curricula computes is 0, and neither the
\* clustering nor the comparison raises.
DegradedStagesComplete ==
    provider # "ok" =>
        /\ pc \in {"compare_start", "compare_loop", "compare_done", "compare_raised"}
              => \A pair \in DOMAIN sim : sim[pair] = 0
        /\ pc # "compare_raised"
        /\ analysis # ErrorResult("fit_predict raised")

\* C15: the result of an analysis that ran with a provider that has no model
\* or whose encode raises has a field that says it is degraded.
DegradedResultIsFlagged ==
    (pc = "analyze_done" /\ db = "connected" /\ provider # "ok"
        /\ career_docs # <<>> /\ ~udla_doc.is_none)
    => "degraded" \in DOMAIN analysis

\* The group of the result that holds subject i.
GroupHolding(i) ==
    CHOOSE g \in 1..Len(cluster_result) :
        \E k \in 1..Len(cluster_result[g].materias) :
            cluster_result[g].materias[k] = i

\* C16: with a provider that has no model or whose encode raises,
\* group_similar_subjects returns groups, two subjects are in the same group
\* exactly when normalize_text gives the same string for their names, and
\* every group is tagged approximate.
DegradedGroupingIsExactMatch ==
    (provider # "ok" /\ subjects # <<>> /\ ~BeforeClusterReturns) =>
        /\ analysis # ErrorResult("fit_predict raised")
        /\ \A i, j \in 1..Len(subjects) :
              (GroupHolding(i) = GroupHolding(j))
                  <=> (NormalizeStr(subjects[i].nombre)
                          = NormalizeStr(subjects[j].nombre))
        /\ \A g \in 1..Len(cluster_result) :
              "approximate" \in DOMAIN cluster_result[g]

\* C17: analyze_career ends with a dict whatever happens: a step that cannot
\* go on is the end of the call with its result; the result has 'error'
\* without a connection, without documents of the career, without a baseline
\* document and when a stage raised; and without a baseline document the
\* clustering, the core identification, the comparison and the synthesis
\* have not run.
AnalyzeAlwaysReturnsADict ==
    /\ (~ENABLED NextAnalyze) => pc = "analyze_done"
    /\ pc = "analyze_done" =>
          /\ analysis # <<>>
          /\ (db = "None" \/ career_docs = <<>> \/ udla_doc.is_none
                \/ \E k \in 1..Len(branch) :
                      branch[k] \in {"matched_raised", "missing_raised"})
                => DOMAIN analysis = {"error"}
          /\ udla_doc.is_none =>
                IdleCluster /\ IdleCore /\ IdleCompare /\ IdleSynth

\* compare_curricula raised and analyze_career returned a dict with 'error'.
WitnessAnalyzeAlwaysReturnsADict ==
    /\ pc = "analyze_done"
    /\ branch # <<>> /\ branch[Len(branch)] = "matched_raised"
    /\ DOMAIN analysis = {"error"}

\* A document that lacks one of the three required keys.
Malformed(doc) == ~(AllKeys \subseteq doc.keys)

\* C18: when a document of the career lacks a required key, the analysis does
\* not end with the error of that document: the flat list holds the subjects
\* of the other documents and only those.
MalformedDocumentIsSkipped ==
    (pc \notin {"analyze_start", "analyze_flatten"}
        /\ career_docs # <<>> /\ ~udla_doc.is_none)
    => /\ analysis \notin {ErrorResult("flatten_curriculum raised"),
                           ErrorResult("KeyError: 'universidad'")}
       /\ all_subjects =
              FlattenAll(SelectSeq(career_docs, LAMBDA doc : ~Malformed(doc)))

\* C19: clustering no subject returns no group; identifying the core
\* subjects of no group returns none; comparing no core subject returns no
\* matched and no missing record; synthesizing with no missing entry returns
\* the buckets of the baseline.
EmptyInputsGiveEmptyResults ==
    /\ (subjects = <<>> /\ all_subjects = <<>>) =>
          /\ analysis # ErrorResult("fit_predict raised")
          /\ cluster_result = <<>>
    /\ (pc = "core" /\ subject_groups = <<>>
          /\ core_results[AnalyzerCoreThreshold] # NotCalled)
       => core_results[AnalyzerCoreThreshold] = Returned(<<>>)
    /\ (core_subjects = <<>> /\ pc \in {"compare_loop", "compare_done",
                                        "compare_raised"})
       => /\ pc # "compare_raised"
          /\ existing_subjects = <<>>
          /\ missing_subjects = <<>>
    /\ (pc = "synth_done" /\ comparison = <<>>) =>
          /\ DOMAIN recommended_curriculum = DOMAIN udla_before
          /\ \A s \in DOMAIN udla_before : Recommended(s) = udla_before[s]

\* An analysis of a baseline without subjects went through the four stages
\* with nothing to work on and returned the baseline.
WitnessEmptyInputsGiveEmptyResults ==
    /\ pc = "analyze_done"
    /\ "error" \notin DOMAIN analysis
    /\ subjects = <<>> /\ cluster_result = <<>>
    /\ core_results[AnalyzerCoreThreshold] = Returned(<<>>)
    /\ core_subjects = <<>> /\ existing_subjects = <<>> /\ missing_subjects = <<>>
    /\ comparison = <<>>
    /\ analysis.malla_recomendada_udla = udla_doc.malla_curricular

\* The records flatten_curriculum is to return for a document: one for every
\* subject listed, with the name, the semester, and the institution and the
\* career of the document.
RECURSIVE SubjectRecordsOfSemesters(_, _)
SubjectRecordsOfSemesters(doc, sems) ==
    IF sems = <<>> THEN <<>>
    ELSE [k \in 1..Len(doc.malla_curricular[Head(sems)]) |->
             [nombre |-> doc.malla_curricular[Head(sems)][k].nombre,
              semestre |-> Head(sems),
              universidad |-> doc.universidad,
              carrera |-> doc.carrera]]
         \o SubjectRecordsOfSemesters(doc, Tail(sems))

RECURSIVE SubjectRecordsOf(_)
SubjectRecordsOf(docs) ==
    IF docs = <<>> THEN <<>>
    ELSE SubjectRecordsOfSemesters(Head(docs),
                                   SemestersOf(Head(docs).malla_curricular))
         \o SubjectRecordsOf(Tail(docs))

\* C20: the flat list that analyze_career builds holds, for every document
\* and every subject the document lists, one record with the name and the
\* semester of the subject and the institution and the career of the document.
FlattenYieldsOneRecordPerSubject ==
    pc = "analyze_fit" => all_subjects = SubjectRecordsOf(career_docs)

\* The institutions whose documents list a member of the group.
ContributingInstitutions(group) ==
    {SubjectRecordsOf(career_docs)[group.materias[k]].universidad :
        k \in 1..Len(group.materias)}

\* C21: the frecuencia_relativa of every core subject of an analysis is the
\* number of distinct institutions whose documents list a member of the
\* group over the number of distinct institutions analyzed, and it is more
\* than 0 and at most 1.
CoverageRatioIsShareOfInstitutions ==
    (core_results # <<>>
        /\ core_results[AnalyzerCoreThreshold].status = "returned") =>
        \A k \in 1..Len(core_results[AnalyzerCoreThreshold].core_subjects) :
            LET group == group_heap[core_results[AnalyzerCoreThreshold].core_subjects[k]]
                ratio == group.frecuencia_relativa
            IN  /\ ratio.num = Cardinality(ContributingInstitutions(group))
                /\ ratio.den = Cardinality(SeqRange(universities))
                /\ 0 < ratio.num
                /\ ratio.num <= ratio.den

(***************************************************************************)
(* Properties of the fields of a group.                                    *)
(***************************************************************************)
\* The value of field f of the members of a group, in member order.
MemberValues(group, f) ==
    [k \in 1..Len(group.materias) |-> subjects[group.materias[k]][f]]

\* v is the value of the list that occurs most often, and of the values that
\* occur that often the one met first.
IsFirstMostFrequent(v, values) ==
    \E i \in 1..Len(values) :
        /\ values[i] = v
        /\ \A j \in 1..Len(values) : Count(values, values[j]) <= Count(values, v)
        /\ \A j \in 1..(i - 1) : Count(values, values[j]) < Count(values, v)

\* The same among the values that are not empty; the default when all are.
IsFirstMostFrequentNonEmpty(v, values, empty, default) ==
    LET present == SelectSeq(values, LAMBDA x : x # empty)
    IN  IF present = <<>> THEN v = default ELSE IsFirstMostFrequent(v, present)

PlainDocs ==
    {doc \in DocPool : AllKeys \subseteq doc.keys
                          /\ ~IsEnriched(doc.malla_curricular)}

\* The collections of three of these documents.
PlainCollections == {<<d1, d2, d3>> : d1 \in PlainDocs, d2 \in PlainDocs, d3 \in PlainDocs}

\* analyzer.core_threshold = core_threshold, in hundredths.
SliderCoreThresholds == {50, AnalyzerCoreThreshold}

InitAnalyzePlain ==
    /\ pc = "analyze_start"
    /\ similarity_threshold \in AnalyzerSimilarityThresholds
    /\ db = "connected"
    /\ core_threshold \in SliderCoreThresholds
    /\ collection \in PlainCollections
    /\ provider = "ok"
    /\ cache_file = NoCache
    /\ career_docs = <<>>
    /\ udla_doc = NoDocument
    /\ all_subjects = <<>>
    /\ analysis = <<>>
    /\ IdleSynth /\ IdleCore /\ IdleCluster /\ IdleCompare /\ IdleNormalize /\ IdleEmbed

SpecAnalyzePlain == InitAnalyzePlain /\ [][NextAnalyze]_vars

\* The coverage of missing entry i is higher than that of missing entry j.
HigherCoverage(i, j) ==
    missing_subjects[i].frecuencia.num * missing_subjects[j].frecuencia.den
        > missing_subjects[j].frecuencia.num * missing_subjects[i].frecuencia.den

\* The names of the missing entries i and j, lower-cased and trimmed, are the
\* same or one of the three measures of the pair is above its cutoff.
NearDuplicates(i, j) ==
    LET ni == Strip(Lower(comparison[i].nombre_recomendado))
        nj == Strip(Lower(comparison[j].nombre_recomendado))
    IN  \/ ni = nj
        \/ fuzz[<<nj, ni>>].ratio * 100 > similarity_threshold
        \/ fuzz[<<nj, ni>>].partial_ratio > PartialCutoff
        \/ fuzz[<<nj, ni>>].token_sort_ratio * 100 > similarity_threshold

RECURSIVE BaselineNames(_)
BaselineNames(sems) ==
    IF sems = <<>> THEN <<>>
    ELSE LET named == SelectSeq(udla_before[Head(sems)], HasName)
         IN  [k \in 1..Len(named) |-> Strip(Lower(named[k].nombre))]
                 \o BaselineNames(Tail(sems))

\* The names of the entries inserted so far, lower-cased and trimmed, in the
\* order of the loop.
RECURSIVE AcceptedNames(_)
AcceptedNames(k) ==
    IF k = 0 THEN <<>>
    ELSE IF verdict[k] = "added"
    THEN Append(AcceptedNames(k - 1),
                Strip(Lower(comparison[k].nombre_recomendado)))
    ELSE AcceptedNames(k - 1)

StagesLeaveInputsUnchanged ==
    [][ /\ pc = "cluster_start" => subjects' = subjects
        /\ (pc = "core" /\ pc' = "core") =>
              /\ group_heap' = group_heap
              /\ subject_groups' = subject_groups
              /\ universities' = universities
        /\ pc \in {"compare_start", "compare_loop"} =>
              /\ core_subjects' = core_subjects
              /\ udla_subjects' = udla_subjects ]_vars

(***************************************************************************)
(* Properties of the loop of compare_curricula.                            *)
(***************************************************************************)
\* The highest of 0 and the similarities of a name to the baseline subjects.
HighestSimilarity(n) ==
    IF \E v \in SimilaritiesOf(n) : v > 0
    THEN CHOOSE v \in SimilaritiesOf(n) : \A w \in SimilaritiesOf(n) : w <= v
    ELSE 0

\* The first baseline subject that has the highest similarity to a name.
FirstMostSimilar(n) ==
    CHOOSE j \in 1..Len(udla_subjects) :
        /\ sim[<<n, udla_subjects[j].nombre>>] = HighestSimilarity(n)
        /\ \A k \in 1..(j - 1) :
              sim[<<n, udla_subjects[k].nombre>>] < HighestSimilarity(n)

\* The record of a core subject when it is the only one of the list.
RecordAlone(c) ==
    IF HighestSimilarity(c.nombre_general) >= similarity_threshold
    THEN LET most_similar_subject == udla_subjects[FirstMostSimilar(c.nombre_general)]
         IN  [materia_troncal |-> c.nombre_general,
              materia_udla |-> most_similar_subject.nombre,
              similitud |-> HighestSimilarity(c.nombre_general),
              area |-> c.area_predominante,
              tipo |-> c.tipo_predominante,
              semestre |-> IF most_similar_subject.semestre = NoKey
                           THEN "1" ELSE most_similar_subject.semestre]
    ELSE [nombre_recomendado |-> c.nombre_general,
          alternativas |-> Take(c.materias_equivalentes, 5),
          frecuencia |-> c.frecuencia_relativa,
          area |-> c.area_predominante,
          tipo |-> c.tipo_predominante,
          semestre_sugerido |-> SemestreSugerido(c)]

\* The position in existing_subjects of the record of the core subject i.
MatchedIndex(i) == Cardinality({j \in 1..i : branch[j] = "matched"})

\* The record of the core subject i in the lists of the call.
RecordOf(i) ==
    IF branch[i] = "matched" THEN existing_subjects[MatchedIndex(i)]
    ELSE missing_subjects[MissingIndex(i)]

CoreNamesAt(S) ==
    LET at == SelectSeq([i \in 1..Len(core_subjects) |-> i], LAMBDA i : i \in S)
    IN  [k \in 1..Len(at) |-> core_subjects[at[k]].nombre_general]

MatchAlwaysHasASubject ==
    /\ \A k \in 1..Len(branch) : branch[k] # "matched_raised"
    /\ \A k \in 1..Len(existing_subjects) :
          \E j \in 1..Len(udla_subjects) :
              udla_subjects[j].nombre = existing_subjects[k].materia_udla


(***************************************************************************)
(* batch_embed_documents called again and again with caching on and the    *)
(* default cache file (utils/embedding_utils.py, lines 105-163).           *)
(***************************************************************************)
MaxEmbedDocs == 2   \* documents of one call of batch_embed_documents

\* The texts of the documents.
EmbedTexts == {<<"a">>, <<"b">>}

\* The document lists of a call, the empty list included.
DocumentLists == SeqsUpTo(EmbedTexts, MaxEmbedDocs)

\* No call was made and there is no cache file yet.
InitEmbed ==
    /\ pc = "embed"
    /\ similarity_threshold = 0
    /\ provider \in Providers
    /\ cache_file = NoCache
    /\ batch_documents = <<>>
    /\ batch_embeddings = <<>>
    /\ db = "" /\ core_threshold = 0 /\ collection = <<>>
    /\ career_docs = <<>> /\ udla_doc = <<>> /\ all_subjects = <<>>
    /\ analysis = <<>>
    /\ IdleSynth /\ IdleCore /\ IdleCluster /\ IdleCompare /\ IdleNormalize

\* One call of batch_embed_documents(documents); p is what the provider does
\* during the call.
CallBatchEmbedDocuments(p, documents) ==
    /\ pc = "embed"
    /\ LET batch == BatchEmbedDocuments(p, cache_file, documents)
       IN  /\ provider' = p
           /\ batch_documents' = documents
           /\ batch_embeddings' = batch.embeddings
           /\ cache_file' = batch.cache
    /\ UNCHANGED <<pc, similarity_threshold, db, core_threshold, collection,
                   career_docs, udla_doc, all_subjects, analysis>>
    /\ UNCHANGED <<synthVars, coreVars, clusterVars, compareVars, normalizeVars>>

NextEmbed ==
    \E p \in Providers : \E documents \in DocumentLists :
        CallBatchEmbedDocuments(p, documents)

SpecEmbed == InitEmbed /\ [][NextEmbed]_vars

\* The embeddings of the latest call hold a zero vector.
ReturnedFallback ==
    \E i \in 1..Len(batch_embeddings) : batch_embeddings[i].zero

\* C29: after any sequence of calls, the cache file holds the encodings of
\* the documents stored with them and no zero vector; the latest call
\* returned, for each document, its encoding or the zero vector; when the
\* provider could not encode and the call still returned encodings, they are
\* the stored ones and the stored documents are the requested list, element
\* for element; and when the call returned the fallback matrix, the cache
\* file does not hold the requested list, so no later call is served it.
CacheServesOnlyOwnEncodings ==
    /\ cache_file.present =>
          /\ cache_file.documents # <<>>
          /\ cache_file.embeddings = EncodedAll(cache_file.documents)
    /\ batch_embeddings \in {EncodedAll(batch_documents), ZeroMatrix(batch_documents)}
    /\ (provider # "ok" /\ batch_documents # <<>> /\ ~ReturnedFallback) =>
          /\ cache_file.present
          /\ cache_file.documents = batch_documents
          /\ batch_embeddings = cache_file.embeddings
    /\ ReturnedFallback =>
          /\ provider # "ok"
          /\ ~(cache_file.present /\ cache_file.documents = batch_documents)

\* A call made while there is no model returned the encodings an earlier
\* call stored for the same two documents.
WitnessCacheServesOnlyOwnEncodings ==
    /\ pc = "embed"
    /\ provider = "no_model"
    /\ batch_documents = <<<<"a">>, <<"b">>>>
    /\ batch_embeddings = EncodedAll(batch_documents)
    /\ cache_file = CacheOf(batch_documents)


(***************************************************************************)
(* The composition of the curriculum generate_recommendations returns.     *)
(***************************************************************************)
\* The names of the first k entries to add that were inserted in semester s,
\* as the entries the loop appended, in the order of the loop.
RECURSIVE InsertedIn(_, _)
InsertedIn(s, k) ==
    IF k = 0 THEN <<>>
    ELSE IF verdict[k] = "added" /\ comparison[k].semestre_sugerido = s
    THEN Append(InsertedIn(s, k - 1), StrEntry(comparison[k].nombre_recomendado))
    ELSE InsertedIn(s, k - 1)

\* C30: the curriculum returned has the semesters of the baseline, and each
\* semester holds the entries the baseline had there followed by the
\* recommended names of the entries to add that were inserted and that
\* suggest this semester, one entry of the list for each of them; and of two
\* entries to add with the same recommended name at most one was inserted.
ResultIsBaselinePlusInserted ==
    pc = "synth_done" =>
        /\ DOMAIN recommended_curriculum = DOMAIN udla_before
        /\ Len(verdict) = Len(comparison)
        /\ \A s \in DOMAIN recommended_curriculum :
              Recommended(s) = udla_before[s] \o InsertedIn(s, Len(comparison))
        /\ \A i, j \in 1..Len(comparison) :
              (i < j /\ comparison[i].nombre_recomendado = comparison[j].nombre_recomendado) =>
                  ~(verdict[i] = "added" /\ verdict[j] = "added")

\* The same name is listed twice for two semesters: the first entry was
\* inserted after the entry the baseline has in its semester, the second was
\* refused as an exact duplicate.
WitnessResultIsBaselinePlusInserted ==
    /\ pc = "synth_done"
    /\ Len(comparison) = 2
    /\ comparison[1].nombre_recomendado = comparison[2].nombre_recomendado
    /\ comparison[1].semestre_sugerido # comparison[2].semestre_sugerido
    /\ verdict = <<"added", "exact">>
    /\ udla_before[comparison[1].semestre_sugerido] # <<>>
    /\ Len(Recommended(comparison[1].semestre_sugerido))
           = Len(udla_before[comparison[1].semestre_sugerido]) + 1

============================================================================
